---- MODULE Spec2Model ----
(***************************************************************************)
(* ix-feature-discovery: the labeler composition (pkg/label), the resource *)
(* aggregation, the NodeFeature publication (pkg/label/output.go) and the  *)
(* refresh loop of cmd/ix-feature-discovery/main.go.                       *)
(*                                                                         *)
(* Specifications:                                                         *)
(*   Spec       the process: start(), ixfd.run(), signals, timer, store    *)
(*   SpecMerge  labelerList.Labels applied to bounded lists of labelers    *)
(*   SpecRes    newIXResourceLabeler applied to bounded device lists       *)
(*   SpecOut    NodeFeatureOutputer.Output against a store with a second   *)
(*              writer                                                     *)
(*   SpecSrc    ixmlVersionLabeler, newMachineTypeLabeler, sanitise and    *)
(*              GetCudaRuntimeVersion applied to bounded readings          *)
(*   SpecLive   Spec with the process running on                           *)
(*                                                                         *)
(* A Go map[string]string is a TLA+ function from a finite set of strings  *)
(* to strings; a nil map and an empty map are both the function with the   *)
(* empty domain, and a (Labels, error) result carries the flag isNil that  *)
(* tells them apart where the code returns nil.                            *)
(***************************************************************************)
EXTENDS Integers, Sequences, FiniteSets, TLC

VARIABLES
    \* SpecMerge: the labelers handed to Merge, the result of Labels()
    mList, mRes, mPc,
    \* SpecRes: the devices of the manager, the result of newIXResourceLabeler
    rDevs, rGetDevErr, rRes, rPc,
    \* SpecOut: the NodeFeature store, the last two Output calls
    oStore, oLast, oPrev, oDirty,
    \* Spec: the process
    pc, ctx, env, config, loads, sigs, timerFired, now, tsLabeler,
    labels, store, ret, exitCode, cyc, hist,
    \* SpecSrc: what a source of labels reads, the labeler it returns
    sIn, sRes, sPc

mergeVars == <<mList, mRes, mPc>>
resVars   == <<rDevs, rGetDevErr, rRes, rPc>>
outVars   == <<oStore, oLast, oPrev, oDirty>>
procVars  == <<pc, ctx, env, config, loads, sigs, timerFired, now, tsLabeler,
               labels, store, ret, exitCode, cyc, hist>>
srcVars   == <<sIn, sRes, sPc>>
vars      == <<mergeVars, resVars, outVars, procVars, srcVars>>

----------------------------------------------------------------------------
(* Bounds of the model *)

\* longest list of labelers handed to Merge in SpecMerge
MaxSources == 3
\* most devices on the node
MaxDevices == 3
\* largest total memory (MB) a device reports
MaxMem == 2

----------------------------------------------------------------------------
(* Labels, Labeler, labelerList  (pkg/label) *)

\* the empty map (also the nil map)
NoLabels == [k \in {} |-> ""]

\* Labels{k: v}
OneLabel(k, v) == [x \in {k} |-> v]

\* a static label map used as a Labeler
LabelsLabeler(l) == [kind |-> "Labels", labels |-> l, list |-> <<>>]

\* empty{}
EmptyLabeler == [kind |-> "empty", labels |-> NoLabels, list |-> <<>>]

\* any other implementation of the Labeler interface whose Labels() fails
FailingLabeler == [kind |-> "failing", labels |-> NoLabels, list |-> <<>>]

\* Merge(labelers...): the list itself is the composite labeler
Merge(labelers) == [kind |-> "list", labels |-> NoLabels, list |-> labelers]

\* the result (Labels, error) of a Labels() call; invoked lists the positions
\* of the list whose Labels() was called, in the order of the calls
LabelsResult(l, isNil, err, invoked) ==
    [labels |-> l, isNil |-> isNil, err |-> err, invoked |-> invoked]

\* mutant of Assign: an earlier label is kept
AssignKeepFirst(allLabels, l, k) ==
    IF k \in DOMAIN allLabels THEN allLabels[k] ELSE l[k]

\* the value of key k after "for k, v := range labels { allLabels[k] = v }"
Assign(allLabels, l, k) ==
    IF k \in DOMAIN l THEN l[k] ELSE allLabels[k]

\* mutant of MergeInto: the labels of the labeler replace the accumulator
MergeIntoReplace(allLabels, l) == l

\* allLabels after the inner range loop over one labeler's labels
MergeInto(allLabels, l) ==
    [k \in (DOMAIN allLabels) \cup (DOMAIN l) |-> Assign(allLabels, l, k)]

\* mutant of OnError: the labels accumulated so far are returned with the error
OnErrorPartial(allLabels, invoked) ==
    LabelsResult(allLabels, FALSE, TRUE, invoked)

\* "return nil, fmt.Errorf(...)" of labelerList.Labels
OnError(allLabels, invoked) ==
    LabelsResult(NoLabels, TRUE, TRUE, invoked)

RECURSIVE LabelerLabels(_)
RECURSIVE ListLabels(_, _, _, _)

\* the loop of labelerList.Labels from position i on
ListLabels(labelers, i, allLabels, invoked) ==
    IF i > Len(labelers)
    THEN LabelsResult(allLabels, FALSE, FALSE, invoked)
    ELSE LET r == LabelerLabels(labelers[i])
         IN  IF r.err
             THEN OnError(allLabels, Append(invoked, i))
             ELSE ListLabels(labelers, i + 1, MergeInto(allLabels, r.labels),
                             Append(invoked, i))

\* Labels() of each implementation of Labeler
LabelerLabels(lab) ==
    CASE lab.kind = "Labels"  -> LabelsResult(lab.labels, FALSE, FALSE, <<>>)
      [] lab.kind = "empty"   -> LabelsResult(NoLabels, TRUE, FALSE, <<>>)
      [] lab.kind = "failing" -> LabelsResult(NoLabels, TRUE, TRUE, <<>>)
      [] lab.kind = "list"    -> ListLabels(lab.list, 1, NoLabels, <<>>)

----------------------------------------------------------------------------
(* SpecMerge: labelerList.Labels on bounded inputs *)

MKeys == {"k1", "k2"}
MVals == {"a", "b"}

\* every label map over a subset of MKeys
MLabelMaps == UNION {[D -> MVals] : D \in SUBSET MKeys}

MSimple == {EmptyLabeler, FailingLabeler} \cup {LabelsLabeler(l) : l \in MLabelMaps}

\* composite labelers used as members of a list, as run() and
\* NewIXDeviceLabeler nest them
MNested == {Merge(<<a, b>>) :
              a \in {LabelsLabeler(OneLabel("k1", "a")), EmptyLabeler},
              b \in {LabelsLabeler(OneLabel("k1", "b")), LabelsLabeler(OneLabel("k2", "b")),
                     FailingLabeler}}

MSources == MSimple \cup MNested

MLists == UNION {[1..n -> MSources] : n \in 0..MaxSources}

NoResult == LabelsResult(NoLabels, TRUE, FALSE, <<>>)

MergeIdle == mList = <<>> /\ mRes = NoResult /\ mPc = "off"

InitMerge ==
    /\ mList \in MLists
    /\ mRes = NoResult
    /\ mPc = "call"

\* labels, err := Merge(mList...).Labels()
MergeCall ==
    /\ mPc = "call"
    /\ mRes' = LabelerLabels(Merge(mList))
    /\ mPc' = "done"
    /\ UNCHANGED mList

----------------------------------------------------------------------------
(* resource.Device and newIXResourceLabeler *)

\* nodeLabelPrefix of pkg/label
nodeLabelPrefix == "iluvatar.com"

KeyProduct == nodeLabelPrefix \o "/gpu.product"
KeyCount   == nodeLabelPrefix \o "/gpu.count"
KeyMemory  == nodeLabelPrefix \o "/gpu.memory"

Digits == <<"0", "1", "2", "3", "4", "5", "6", "7", "8", "9">>

RECURSIVE Itoa(_)
\* strconv.Itoa: the decimal digits of n, "-" first when n is negative
Itoa(n) ==
    IF n < 0 THEN "-" \o Itoa(0 - n)
    ELSE IF n < 10 THEN Digits[n + 1]
    ELSE Itoa(n \div 10) \o Digits[(n % 10) + 1]

\* A device of the library: the name it reports, as the list of the fields
\* that single spaces separate ("Iluvatar BI-V150S" is <<"Iluvatar",
\* "BI-V150S">>, so strings.Split(name, " ") is the list itself), whether the
\* name and the memory reads succeed, and its total memory in MB.
Device(name, nameOk, mem, memOk) ==
    [name |-> name, nameOk |-> nameOk, mem |-> mem, memOk |-> memOk]

\* the result of a read: a value, an error, or a run-time panic
ReadResult(val, err, panic) == [val |-> val, err |-> err, panic |-> panic]

\* ixmlDevice.GetName
GetName(d) ==
    IF ~d.nameOk THEN ReadResult("", TRUE, FALSE)
    ELSE IF Len(d.name) < 2 THEN ReadResult("", FALSE, TRUE)
    ELSE ReadResult(d.name[2], FALSE, FALSE)

\* ixmlDevice.GetTotalMemoryMB
GetTotalMemoryMB(d) ==
    IF ~d.memOk THEN ReadResult(0, TRUE, FALSE)
    ELSE ReadResult(d.mem, FALSE, FALSE)

\* mutant of CountInc: the counter is set, not incremented
CountIncSet(counts, name) ==
    [n \in (DOMAIN counts) \cup {name} |-> IF n = name THEN 1 ELSE counts[n]]

\* counts[name]++
CountInc(counts, name) ==
    [n \in (DOMAIN counts) \cup {name} |->
        IF n = name THEN (IF name \in DOMAIN counts THEN counts[name] + 1 ELSE 1)
        ELSE counts[n]]

\* mutant of SetMemory: the memory first seen for a name is kept
SetMemoryKeepFirst(memorys, name, memory) ==
    [n \in (DOMAIN memorys) \cup {name} |->
        IF n \in DOMAIN memorys THEN memorys[n] ELSE Itoa(memory)]

\* memorys[name] = strconv.Itoa(int(memory)); memory is far below 2^63, so
\* int(memory) is memory
SetMemory(memorys, name, memory) ==
    [n \in (DOMAIN memorys) \cup {name} |->
        IF n = name THEN Itoa(memory) ELSE memorys[n]]

\* the state of the loop over the devices
Aggregation(counts, memorys, err, panic, nameReads, memReads) ==
    [counts |-> counts, memorys |-> memorys, err |-> err, panic |-> panic,
     nameReads |-> nameReads, memReads |-> memReads]

RECURSIVE DeviceLoop(_, _, _)
\* "for _, dev := range devices" from position i on
DeviceLoop(devices, i, a) ==
    IF i > Len(devices) THEN a
    ELSE LET name == GetName(devices[i])
             memory == GetTotalMemoryMB(devices[i])
         IN  IF name.panic
             THEN [a EXCEPT !.panic = TRUE, !.nameReads = @ + 1]
             ELSE IF name.err
             THEN [a EXCEPT !.err = TRUE, !.nameReads = @ + 1]
             ELSE IF memory.err
             THEN [a EXCEPT !.err = TRUE, !.nameReads = @ + 1, !.memReads = @ + 1]
             ELSE DeviceLoop(devices, i + 1,
                     Aggregation(CountInc(a.counts, name.val),
                                 SetMemory(a.memorys, name.val, memory.val),
                                 FALSE, FALSE, a.nameReads + 1, a.memReads + 1))

\* the names a product can have
ProductNames == {"BI-V150S", "MR-V100"}

\* every order in which a range over a Go map may visit the product names
MapOrders == {o \in [1..Cardinality(ProductNames) -> ProductNames] :
                \A i, j \in DOMAIN o : i # j => o[i] # o[j]}

\* the keys of map m in the order a range visits them, given the order of
\* all names
RangeOrder(order, m) == SelectSeq(order, LAMBDA n : n \in DOMAIN m)

\* the Labels literal of one product name
ProductLabels(name, counts, memorys) ==
    [k \in {KeyProduct, KeyCount, KeyMemory} |->
        CASE k = KeyProduct -> name
          [] k = KeyCount   -> Itoa(counts[name])
          [] k = KeyMemory  -> memorys[name]]

\* the result (Labeler, error) of newIXResourceLabeler, with what it logged,
\* the reads it made and the maps counts and memorys as the loop left them
ResourceResult(kind, labeler, warned, nameReads, memReads) ==
    [kind |-> kind, labeler |-> labeler, warned |-> warned,
     nameReads |-> nameReads, memReads |-> memReads,
     counts |-> NoLabels, memorys |-> NoLabels]

\* mutant of NoDevices: the empty list is aggregated like any other
NoDevicesNever(devices) == FALSE

\* "if len(devices) == 0"
NoDevices(devices) == Len(devices) = 0

\* newIXResourceLabeler; order is the order of the range over counts
newIXResourceLabeler(devices, getDevErr, order) ==
    IF getDevErr THEN ResourceResult("err", EmptyLabeler, FALSE, 0, 0)
    ELSE IF NoDevices(devices) THEN ResourceResult("ok", EmptyLabeler, FALSE, 0, 0)
    ELSE LET a == DeviceLoop(devices, 1, Aggregation(NoLabels, NoLabels, FALSE, FALSE, 0, 0))
             names == RangeOrder(order, a.counts)
             labelers == [i \in 1..Len(names) |->
                             LabelsLabeler(ProductLabels(names[i], a.counts, a.memorys))]
             r == ListLabels(labelers, 1, NoLabels, <<>>)
         IN  IF a.panic THEN ResourceResult("panic", EmptyLabeler, FALSE, a.nameReads, a.memReads)
             ELSE IF a.err \/ r.err
             THEN ResourceResult("err", EmptyLabeler, FALSE, a.nameReads, a.memReads)
             ELSE [ResourceResult("ok", Merge(<<LabelsLabeler(r.labels)>>),
                                  Cardinality(DOMAIN a.counts) > 1,
                                  a.nameReads, a.memReads)
                      EXCEPT !.counts = a.counts, !.memorys = a.memorys]

----------------------------------------------------------------------------
(* SpecRes: newIXResourceLabeler on bounded device lists *)

\* the names devices report: with the vendor prefix, and without it
RawNames == {<<"Iluvatar", n>> : n \in ProductNames} \cup {<<"BI-V150S">>}

\* the memory sizes (MB) devices report
MemUnit == 16384
MemValues == {MemUnit * i : i \in 1..MaxMem}

RDevices ==
    {Device(n, TRUE, m, TRUE) : n \in RawNames, m \in MemValues}
    \cup {Device(<<>>, FALSE, m, TRUE) : m \in MemValues}
    \cup {Device(n, TRUE, 0, FALSE) : n \in RawNames}

RDeviceLists == UNION {[1..n -> RDevices] : n \in 0..MaxDevices}

NoResource == ResourceResult("none", EmptyLabeler, FALSE, 0, 0)

ResIdle == rDevs = <<>> /\ rGetDevErr = FALSE /\ rRes = NoResource /\ rPc = "off"

InitRes ==
    /\ rDevs \in RDeviceLists
    /\ rGetDevErr = FALSE
    /\ rRes = NoResource
    /\ rPc = "call"

\* labeler, err := newIXResourceLabeler(manager)
ResourceCall ==
    /\ rPc = "call"
    /\ \E getDevErr \in BOOLEAN, order \in MapOrders :
          /\ rGetDevErr' = getDevErr
          /\ rRes' = newIXResourceLabeler(rDevs, getDevErr, order)
    /\ rPc' = "done"
    /\ UNCHANGED rDevs

----------------------------------------------------------------------------
(* NodeFeatureOutputer.Output  (pkg/label/output.go) *)

\* nfdv1alpha1.NodeFeatureObjNodeNameLabel
NodeFeatureObjNodeNameLabel == "nfd.node.kubernetes.io/node-name"

\* the node name of the flag node-name
NodeName == "node-1"

\* *nfdv1alpha1.NewFeatures(): three empty maps
NewFeatures == [flags |-> NoLabels, attributes |-> NoLabels, instances |-> NoLabels]

\* a NodeFeature object: its metadata labels, the rest of its metadata (what
\* the server and other clients keep there), and its spec
NodeFeature(metaLabels, meta, features, specLabels) ==
    [metaLabels |-> metaLabels, meta |-> meta, features |-> features,
     specLabels |-> specLabels]

\* the store of the cluster: the node's object, when it exists
Stored(obj) == [exists |-> TRUE, obj |-> obj]
Absent == [exists |-> FALSE, obj |-> NodeFeature(NoLabels, "", NewFeatures, NoLabels)]

\* the object of the Create call
CreatedObject(nodename, l) ==
    NodeFeature(OneLabel(NodeFeatureObjNodeNameLabel, nodename), "", NewFeatures, l)

\* mutant of UpdatedObject: the labels of the stored object are kept
UpdatedObjectStale(nfr, nodename, l) ==
    [nfr EXCEPT !.metaLabels = OneLabel(NodeFeatureObjNodeNameLabel, nodename),
                !.features = NewFeatures]

\* nfrUpdated: the deep copy of nfr with its labels and its spec replaced
UpdatedObject(nfr, nodename, l) ==
    [nfr EXCEPT !.metaLabels = OneLabel(NodeFeatureObjNodeNameLabel, nodename),
                !.features = NewFeatures,
                !.specLabels = l]

\* mutant of SemanticDeepEqual: the objects never compare equal
SemanticDeepEqualNever(a, b) == FALSE

\* equality.Semantic.DeepEqual: field by field, a nil map equal to an empty
\* map (both are the function with the empty domain here)
SemanticDeepEqual(a, b) ==
    /\ a.metaLabels = b.metaLabels
    /\ a.meta = b.meta
    /\ a.features = b.features
    /\ a.specLabels = b.specLabels

\* what an Output call did: the store after it, the error it returned, the
\* Get, Create and Update calls it issued
OutputResult(st, err, gets, creates, updates) ==
    [store |-> st, err |-> err, gets |-> gets, creates |-> creates, updates |-> updates]

\* mutant of Output: every error of the Get call is taken for not-found
OutputGetErrorAsNotFound(st, nodename, l, getErr, writeErr) ==
    IF nodename = "" THEN OutputResult(st, TRUE, 0, 0, 0)
    ELSE IF getErr \/ ~st.exists
    THEN IF writeErr THEN OutputResult(st, TRUE, 1, 1, 0)
         ELSE OutputResult(Stored(CreatedObject(nodename, l)), FALSE, 1, 1, 0)
    ELSE OutputResult(st, FALSE, 1, 0, 0)

\* NodeFeatureOutputer.Output(labels); getErr: the Get call fails with an
\* error other than not-found; writeErr: the Create or Update call fails
Output(st, nodename, l, getErr, writeErr) ==
    IF nodename = "" THEN OutputResult(st, TRUE, 0, 0, 0)
    ELSE IF getErr THEN OutputResult(st, TRUE, 1, 0, 0)
    ELSE IF ~st.exists
    THEN IF writeErr THEN OutputResult(st, TRUE, 1, 1, 0)
         ELSE OutputResult(Stored(CreatedObject(nodename, l)), FALSE, 1, 1, 0)
    ELSE LET nfr == st.obj
             nfrUpdated == UpdatedObject(nfr, nodename, l)
         IN  IF ~SemanticDeepEqual(nfr, nfrUpdated)
             THEN IF writeErr THEN OutputResult(st, TRUE, 1, 0, 1)
                  ELSE OutputResult(Stored(nfrUpdated), FALSE, 1, 0, 1)
             ELSE OutputResult(st, FALSE, 1, 0, 0)

----------------------------------------------------------------------------
(* SpecOut: Output against a store that a second writer also changes *)

\* the label sets published
OLabels == {NoLabels,
            OneLabel(KeyCount, "1"),
            OneLabel(KeyCount, "2"),
            [k \in {KeyCount, KeyProduct} |-> IF k = KeyCount THEN "1" ELSE "MR-V100"]}

\* the objects another client may leave in the store: the objects Output
\* itself writes, and one with other metadata labels, one with other
\* metadata, one with features
OForeign ==
    {CreatedObject(NodeName, l) : l \in OLabels}
    \cup {NodeFeature(NoLabels, "", NewFeatures, OneLabel(KeyCount, "1")),
          NodeFeature(OneLabel(NodeFeatureObjNodeNameLabel, NodeName), "annotated",
                      NewFeatures, OneLabel(KeyCount, "1")),
          NodeFeature(OneLabel(NodeFeatureObjNodeNameLabel, NodeName), "",
                      [NewFeatures EXCEPT !.flags = OneLabel("flag", "")],
                      OneLabel(KeyCount, "1"))}

\* an Output call as the history keeps it: the labels passed, the store
\* before the call, what the call did, whether the Get call failed, and
\* whether another client wrote since the call before
OCall(called, l, pre, res, getErr, interfered) ==
    [called |-> called, labels |-> l, pre |-> pre, res |-> res, getErr |-> getErr,
     interfered |-> interfered]

\* the call before the last one: its labels, whether the object existed
\* before it, its error and the calls it issued
OSummary(c) ==
    [called |-> c.called, labels |-> c.labels, preExists |-> c.pre.exists,
     err |-> c.res.err, creates |-> c.res.creates, updates |-> c.res.updates]

NoCall == OCall(FALSE, NoLabels, Absent, OutputResult(Absent, FALSE, 0, 0, 0), FALSE, FALSE)

OStores == {Absent} \cup {Stored(o) : o \in OForeign}

OutIdle ==
    oStore = Absent /\ oLast = NoCall /\ oPrev = OSummary(NoCall) /\ oDirty = FALSE

InitOut ==
    /\ oStore \in OStores
    /\ oLast = NoCall
    /\ oPrev = OSummary(NoCall)
    /\ oDirty = FALSE

\* err := outputer.Output(labels)
OutputCall ==
    \E l \in OLabels, getErr \in BOOLEAN, writeErr \in BOOLEAN :
        LET res == Output(oStore, NodeName, l, getErr, writeErr)
        IN  /\ oStore' = res.store
            /\ oPrev' = OSummary(oLast)
            /\ oLast' = OCall(TRUE, l, oStore, res, getErr, oDirty)
            /\ oDirty' = FALSE

\* another client creates, replaces or deletes the node's object
OtherWrite ==
    /\ oStore' \in OStores \ {oStore}
    /\ oDirty' = TRUE
    /\ UNCHANGED <<oLast, oPrev>>

----------------------------------------------------------------------------
(* The timestamp, machine-type and version labelers *)

KeyTimestamp    == nodeLabelPrefix \o "/ix.timestamp"
KeyMachine      == nodeLabelPrefix \o "/gpu.machine"
KeyDriverFull   == nodeLabelPrefix \o "/ix.driver-version.full"
KeyDriverMajor  == nodeLabelPrefix \o "/ix.driver-version.major"
KeyDriverMinor  == nodeLabelPrefix \o "/ix.driver-version.minor"
KeyDriverRev    == nodeLabelPrefix \o "/ix.driver-version.revision"
KeyRuntimeFull  == nodeLabelPrefix \o "/cuda.runtime-version.full"
KeyRuntimeMajor == nodeLabelPrefix \o "/cuda.runtime-version.major"
KeyRuntimeMinor == nodeLabelPrefix \o "/cuda.runtime-version.minor"

\* mutant of NewTimestampLabeler: no label whatever the option
NewTimestampLabelerOff(noTimestamp, unix) == EmptyLabeler

\* NewTimestampLabeler; unix is time.Now().Unix()
NewTimestampLabeler(noTimestamp, unix) ==
    IF noTimestamp THEN EmptyLabeler
    ELSE LabelsLabeler(OneLabel(KeyTimestamp, Itoa(unix)))

\* machineTypeUnknown of pkg/label
machineTypeUnknown == <<"u", "n", "k", "n", "o", "w", "n">>

\* A text is the sequence of its characters, each a one-character string.
UpperCase == {"A", "B", "C", "D", "E", "F", "G", "H", "I", "J", "K", "L", "M",
              "N", "O", "P", "Q", "R", "S", "T", "U", "V", "W", "X", "Y", "Z"}
LowerCase == {"a", "b", "c", "d", "e", "f", "g", "h", "i", "j", "k", "l", "m",
              "n", "o", "p", "q", "r", "s", "t", "u", "v", "w", "x", "y", "z"}
DigitChars == {Digits[i] : i \in DOMAIN Digits}

\* the characters the pattern [^A-Za-z0-9-_. ] leaves in place
KeptChars == UpperCase \cup LowerCase \cup DigitChars \cup {"-", "_", ".", " "}

\* unicode.IsSpace on the characters of the model
IsSpace(c) == c \in {" ", "\t", "\n", "\r"}

RECURSIVE TrimLeft(_)
TrimLeft(cs) ==
    IF cs # <<>> /\ IsSpace(Head(cs)) THEN TrimLeft(Tail(cs)) ELSE cs

RECURSIVE TrimRight(_)
TrimRight(cs) ==
    IF cs # <<>> /\ IsSpace(cs[Len(cs)]) THEN TrimRight(SubSeq(cs, 1, Len(cs) - 1)) ELSE cs

\* strings.TrimSpace
TrimSpace(cs) == TrimRight(TrimLeft(cs))

RECURSIVE JoinChars(_)
\* the string of a text
JoinChars(cs) == IF cs = <<>> THEN "" ELSE Head(cs) \o JoinChars(Tail(cs))

RECURSIVE Fields(_, _, _)
\* strings.Fields from position i on: the maximal runs of non-space
\* characters of cs, word being the run under way
Fields(cs, i, word) ==
    IF i > Len(cs) THEN (IF word = <<>> THEN <<>> ELSE <<word>>)
    ELSE IF IsSpace(cs[i])
         THEN (IF word = <<>> THEN <<>> ELSE <<word>>) \o Fields(cs, i + 1, <<>>)
         ELSE Fields(cs, i + 1, Append(word, cs[i]))

RECURSIVE Join(_, _)
\* strings.Join of texts
Join(texts, sep) ==
    IF texts = <<>> THEN <<>>
    ELSE IF Len(texts) = 1 THEN texts[1]
    ELSE texts[1] \o sep \o Join(Tail(texts), sep)

\* mutant of sanitise: the characters are not filtered
sanitiseUnfiltered(input) == Join(Fields(input, 1, <<>>), <<"-">>)

\* sanitise
sanitise(input) ==
    LET kept == SelectSeq(input, LAMBDA c : c \in KeptChars)
    IN  Join(Fields(kept, 1, <<>>), <<"-">>)

\* the default of the flag machine-type-file
DefaultMachineTypeFile == "/sys/class/dmi/id/product_name"

\* the result of os.ReadFile: the content of the file, or an error
FileRead(data, err) == [data |-> data, err |-> err]

\* mutant of getMachineType: the file is read whatever the path
getMachineTypeAlwaysRead(path, file) ==
    IF file.err THEN [val |-> <<>>, err |-> TRUE, reads |-> 1]
    ELSE [val |-> TrimSpace(file.data), err |-> FALSE, reads |-> 1]

\* getMachineType; file is what os.ReadFile(path) returns; reads counts the
\* calls of os.ReadFile
getMachineType(path, file) ==
    IF path = "" THEN [val |-> machineTypeUnknown, err |-> FALSE, reads |-> 0]
    ELSE IF file.err THEN [val |-> <<>>, err |-> TRUE, reads |-> 1]
    ELSE [val |-> TrimSpace(file.data), err |-> FALSE, reads |-> 1]

\* newMachineTypeLabeler
newMachineTypeLabeler(machineTypePath, file) ==
    LET r == getMachineType(machineTypePath, file)
        machineType == IF r.err THEN machineTypeUnknown ELSE r.val
    IN  [labeler |-> LabelsLabeler(OneLabel(KeyMachine, JoinChars(sanitise(machineType)))),
         err |-> FALSE, warned |-> r.err, reads |-> r.reads]

RECURSIVE AtoiDigits(_, _)
\* the value of the decimal digits cs after the value acc
AtoiDigits(cs, acc) ==
    IF cs = <<>> THEN acc
    ELSE AtoiDigits(Tail(cs),
                    10 * acc + (CHOOSE d \in 0..9 : Digits[d + 1] = Head(cs)))

\* strconv.Atoi: an optional sign, then one decimal digit or more
Atoi(cs) ==
    LET signed == cs # <<>> /\ Head(cs) \in {"+", "-"}
        ds == IF signed THEN Tail(cs) ELSE cs
    IN  IF ds = <<>> \/ \E i \in DOMAIN ds : ds[i] \notin DigitChars
        THEN [val |-> 0, err |-> TRUE]
        ELSE [val |-> IF signed /\ Head(cs) = "-" THEN 0 - AtoiDigits(ds, 0)
                      ELSE AtoiDigits(ds, 0),
              err |-> FALSE]

\* what the library reports: ok is "ret == ixml.SUCCESS"
LibString(val, ok) == [val |-> val, ok |-> ok]

\* mutant of GetCudaRuntimeVersion: the minor version from the last two digits
GetCudaRuntimeVersionTens(cuda) ==
    LET vi == Atoi(cuda.val)
    IN  IF ~cuda.ok \/ vi.err THEN [major |-> 0, minor |-> 0, err |-> TRUE]
        ELSE [major |-> vi.val \div 1000, minor |-> (vi.val % 100) \div 10,
              err |-> FALSE]

\* ixmlLib.GetCudaRuntimeVersion for a version that is not negative
GetCudaRuntimeVersion(cuda) ==
    LET vi == Atoi(cuda.val)
    IN  IF ~cuda.ok \/ vi.err THEN [major |-> 0, minor |-> 0, err |-> TRUE]
        ELSE [major |-> vi.val \div 1000, minor |-> (vi.val % 1000) \div 10,
              err |-> FALSE]

RECURSIVE SplitFrom(_, _, _, _)
\* strings.Split from position i on: the texts between the separators of
\* cs, empty ones included, word being the text under way
SplitFrom(cs, sep, i, word) ==
    IF i > Len(cs) THEN <<word>>
    ELSE IF cs[i] = sep THEN <<word>> \o SplitFrom(cs, sep, i + 1, <<>>)
    ELSE SplitFrom(cs, sep, i + 1, Append(word, cs[i]))

\* strings.Split(cs, sep) for a separator of one character
Split(cs, sep) == SplitFrom(cs, sep, 1, <<>>)

\* mutant of MalformedVersion: only too few components are refused
MalformedVersionShort(split) == Len(split) < 2

\* "len(driverVersionSplit) > 3 || len(driverVersionSplit) < 2"
MalformedVersion(split) == Len(split) > 3 \/ Len(split) < 2

\* ixmlVersionLabeler; the driver version is a text
ixmlVersionLabeler(driver, cuda) ==
    LET driverVersionSplit == Split(driver.val, ".")
        rt == GetCudaRuntimeVersion(cuda)
    IN  IF ~driver.ok THEN [labeler |-> EmptyLabeler, err |-> TRUE]
        ELSE IF MalformedVersion(driverVersionSplit)
        THEN [labeler |-> EmptyLabeler, err |-> TRUE]
        ELSE IF rt.err THEN [labeler |-> EmptyLabeler, err |-> TRUE]
        ELSE [labeler |-> LabelsLabeler(
                 [k \in {KeyDriverFull, KeyDriverMajor, KeyDriverMinor, KeyDriverRev,
                         KeyRuntimeFull, KeyRuntimeMajor, KeyRuntimeMinor} |->
                    CASE k = KeyDriverFull   -> JoinChars(driver.val)
                      [] k = KeyDriverMajor  -> JoinChars(driverVersionSplit[1])
                      [] k = KeyDriverMinor  -> JoinChars(driverVersionSplit[2])
                      [] k = KeyDriverRev    ->
                            IF Len(driverVersionSplit) > 2
                            THEN JoinChars(driverVersionSplit[3]) ELSE ""
                      [] k = KeyRuntimeFull  -> Itoa(rt.major) \o "." \o Itoa(rt.minor)
                      [] k = KeyRuntimeMajor -> Itoa(rt.major)
                      [] k = KeyRuntimeMinor -> Itoa(rt.minor)]),
              err |-> FALSE]

----------------------------------------------------------------------------
(* SpecSrc: ixmlVersionLabeler and newMachineTypeLabeler on bounded inputs *)

\* longest driver version text
MaxVersionLen == 5

\* the texts of at most n characters of the set chars
TextsUpTo(chars, n) == UNION {[1..k -> chars] : k \in 0..n}

\* the driver versions the library reports: every short text of digits and
\* dots, and two versions of full length
SDrivers ==
    {LibString(t, TRUE) : t \in TextsUpTo({"4", "3", "."}, MaxVersionLen)}
    \cup {LibString(<<"4", ".", "3", ".", "1", "0">>, TRUE),
          LibString(<<"1", ".", "2", ".", "3", ".", "4">>, TRUE),
          LibString(<<>>, FALSE)}

\* the runtime versions the library reports
SCudas ==
    {LibString(<<"1", "0", "0", "2", "0">>, TRUE), LibString(<<"9", "0", "5", "0">>, TRUE),
     LibString(<<"1", "0", ".", "2">>, TRUE), LibString(<<>>, FALSE)}

\* the machine-type files: unreadable, empty, blank, and names with spaces
\* and with characters sanitise removes
SFiles ==
    {FileRead(<<>>, TRUE), FileRead(<<>>, FALSE), FileRead(<<" ", "\n">>, FALSE),
     FileRead(<<"M", "y", " ", " ", "P", "C", "!", "\n">>, FALSE),
     FileRead(<<"R", "7", "4", "0">>, FALSE),
     FileRead(<<"u", "n", "k", "n", "o", "w", "n">>, FALSE)}

\* longest text given to sanitise, the example apart
MaxTextLen == 4

\* "My Test   Machine!!"
MyTestMachine ==
    <<"M", "y", " ", "T", "e", "s", "t", " ", " ", " ",
      "M", "a", "c", "h", "i", "n", "e", "!", "!">>

\* the texts given to sanitise: letters, spaces, tabs, hyphens and a
\* character the expression removes
STexts == TextsUpTo({"a", "B", " ", "\t", "-", "!"}, MaxTextLen) \cup {MyTestMachine}

\* largest major version of the runtime
MaxMajor == 12

RECURSIVE DigitsOf(_)
\* the decimal text of a number that is not negative
DigitsOf(n) ==
    IF n < 10 THEN <<Digits[n + 1]>>
    ELSE Append(DigitsOf(n \div 10), Digits[(n % 10) + 1])

\* the runtime versions ixml.SystemGetCudaDriverVersion reports: the decimal
\* text of every number up to the largest major version, texts that are no
\* numbers, and a failing call
SRuntimes ==
    {[v |-> v, cuda |-> LibString(DigitsOf(v), TRUE)] : v \in 0..(MaxMajor * 1000 + 999)}
    \cup {[v |-> 0 - 1, cuda |-> c] :
             c \in {LibString(<<>>, TRUE), LibString(<<"1", "0", ".", "2">>, TRUE),
                    LibString(<<"1", "0", "0", "2", "0", "a">>, TRUE),
                    LibString(<<"1", "0", "0", "2", "0">>, FALSE)}}

\* what a source reads
SInputs ==
    {[kind |-> "version", driver |-> d, cuda |-> c] : d \in SDrivers, c \in SCudas}
    \cup {[kind |-> "machine", path |-> p, file |-> f] :
             p \in {"", DefaultMachineTypeFile}, f \in SFiles}
    \cup {[kind |-> "sanitise", input |-> t] : t \in STexts}
    \cup {[kind |-> "cuda", v |-> r.v, cuda |-> r.cuda] : r \in SRuntimes}

NoSource == [labeler |-> EmptyLabeler, err |-> FALSE]

SrcIdle == sIn = [kind |-> "none"] /\ sRes = NoSource /\ sPc = "off"

InitSrc == sIn \in SInputs /\ sRes = NoSource /\ sPc = "call"

\* versionLabeler, err := ixmlVersionLabeler(manager)
VersionCall ==
    /\ sPc = "call" /\ sIn.kind = "version"
    /\ sRes' = ixmlVersionLabeler(sIn.driver, sIn.cuda)
    /\ sPc' = "done"
    /\ UNCHANGED sIn

\* machineTypeLabeler, err := newMachineTypeLabeler(*config.Flags.MachineTypeFile)
MachineTypeCall ==
    /\ sPc = "call" /\ sIn.kind = "machine"
    /\ sRes' = newMachineTypeLabeler(sIn.path, sIn.file)
    /\ sPc' = "done"
    /\ UNCHANGED sIn

\* machineType = sanitise(machineType), and its result sanitised again
SanitiseCall ==
    /\ sPc = "call" /\ sIn.kind = "sanitise"
    /\ sRes' = [out |-> sanitise(sIn.input), again |-> sanitise(sanitise(sIn.input))]
    /\ sPc' = "done"
    /\ UNCHANGED sIn

\* cudaMajor, cudaMinor, err := manager.GetCudaRuntimeVersion()
CudaCall ==
    /\ sPc = "call" /\ sIn.kind = "cuda"
    /\ sRes' = GetCudaRuntimeVersion(sIn.cuda)
    /\ sPc' = "done"
    /\ UNCHANGED sIn

----------------------------------------------------------------------------
(* NewIXDeviceLabeler / NewLabelers *)

\* the machine as one cycle reads it: the devices, the driver and runtime
\* versions, the machine-type file
Readings(devices, driver, cuda, file) ==
    [devices |-> devices, driver |-> driver, cuda |-> cuda, file |-> file]

\* the library calls that fail in one cycle, and the order of the range
\* over the counts
Faults(initErr, getDevErr, getDevErr2, order) ==
    [initErr |-> initErr, getDevErr |-> getDevErr, getDevErr2 |-> getDevErr2,
     order |-> order]

\* the result (Labeler, error) of NewIXDeviceLabeler with the Init and
\* Shutdown calls it made
DeviceLabelerResult(kind, labeler, inits, shutdowns) ==
    [kind |-> kind, labeler |-> labeler, inits |-> inits, shutdowns |-> shutdowns]

\* mutant of ShutdownCalls: the adapter is never shut down
ShutdownCallsNone(initErr) == 0

\* "defer func() { _ = manager.Shutdown() }()": the Shutdown calls made when
\* NewIXDeviceLabeler returns or panics; the function is deferred only
\* once Init has succeeded
ShutdownCalls(initErr) == IF initErr THEN 0 ELSE 1

\* mutant of NoDevicesFound: the labelers are built for an empty list too
NoDevicesFoundNever(devices) == FALSE

\* "if len(devices) == 0" of NewIXDeviceLabeler
NoDevicesFound(devices) == Len(devices) = 0

\* NewIXDeviceLabeler; the deferred Shutdown runs on every return after a
\* successful Init, and while a panic unwinds
NewIXDeviceLabeler(rd, machineTypeFile, f) ==
    IF f.initErr THEN DeviceLabelerResult("err", EmptyLabeler, 1, ShutdownCalls(TRUE))
    ELSE IF f.getDevErr
    THEN DeviceLabelerResult("err", EmptyLabeler, 1, ShutdownCalls(FALSE))
    ELSE IF NoDevicesFound(rd.devices)
    THEN DeviceLabelerResult("ok", EmptyLabeler, 1, ShutdownCalls(FALSE))
    ELSE LET machineTypeLabeler == newMachineTypeLabeler(machineTypeFile, rd.file)
             versionLabeler == ixmlVersionLabeler(rd.driver, rd.cuda)
             ixResourceLabeler == newIXResourceLabeler(rd.devices, f.getDevErr2, f.order)
         IN  IF machineTypeLabeler.err \/ versionLabeler.err
             THEN DeviceLabelerResult("err", EmptyLabeler, 1, ShutdownCalls(FALSE))
             ELSE IF ixResourceLabeler.kind # "ok"
             THEN DeviceLabelerResult(ixResourceLabeler.kind, EmptyLabeler, 1,
                                      ShutdownCalls(FALSE))
             ELSE DeviceLabelerResult("ok",
                      Merge(<<machineTypeLabeler.labeler, versionLabeler.labeler,
                              ixResourceLabeler.labeler>>), 1, ShutdownCalls(FALSE))

\* NewLabelers
NewLabelers(rd, machineTypeFile, f) == NewIXDeviceLabeler(rd, machineTypeFile, f)

----------------------------------------------------------------------------
(* The process: main(), start(), ixfd.run() *)

\* most calls of loadConfig in a run of the process
MaxLoads == 2
\* most compositions between two calls of loadConfig
MaxCycles == 2
\* the Unix time at which the process starts
StartTime == 1700000000
\* the capacity of the channel utils.Signals returns
SigCap == 1

\* the signals start() registers
Signals == {"SIGHUP", "SIGINT", "SIGTERM", "SIGQUIT"}

\* the default of the flag output-file
DefaultOutputFile == "/etc/kubernetes/node-feature-discovery/features.d/ix-features"

\* the parsed command line: the flags and the node configuration
Context(noTimestamp, outputFile, machineTypeFile, nodeName, namespace) ==
    [noTimestamp |-> noTimestamp, outputFile |-> outputFile,
     machineTypeFile |-> machineTypeFile, nodeName |-> nodeName,
     namespace |-> namespace]

\* config.NewConfig / Flags.UpdateFromCLIFlags: a new Config object (id)
\* with every flag copied from the command line
NewConfig(c, id) ==
    [id |-> id, noTimestamp |-> c.noTimestamp, outputFile |-> c.outputFile,
     machineTypeFile |-> c.machineTypeFile]

NoConfig == [id |-> 0, noTimestamp |-> FALSE, outputFile |-> "", machineTypeFile |-> ""]

\* NewOutputer: the error it returns
NewOutputerErr(nodeName, namespace) == nodeName = "" \/ namespace = ""

\* NewOutputer: the Outputer it builds; the output-file flag is not read
NewOutputerKind(outputFile) == "NodeFeatureOutputer"

\* what run() returned: (restart, err), the statement that returned (by)
\* and the signal received, if one was
Return(restart, err, by, sig) ==
    [restart |-> restart, err |-> err, by |-> by, sig |-> sig]

NoReturn == Return(FALSE, FALSE, "none", "none")

\* mutant of RemoveCalls: the deferred function removes nothing
RemoveCallsNone(outputFile) == 0

\* the deferred function of run(): the calls of removeOutputFile it makes
RemoveCalls(outputFile) == IF outputFile = "" THEN 0 ELSE 1

\* mutant of SignalRestart: every signal restarts
SignalRestartAlways(s) == TRUE

\* "switch s": the restart decision of run() for signal s
SignalRestart(s) == s = "SIGHUP"

\* mutant of AfterRun: start() returns whatever run() returned
AfterRunExit(r) == "Exited"

\* mutant of AfterRun: start() loops again after a failed run()
AfterRunRetry(r) == IF r.err \/ r.restart THEN "Configuring" ELSE "Exited"

\* lines 148-154 of start(): where it goes once run() has returned
AfterRun(r) ==
    IF r.err THEN "Exited"
    ELSE IF ~r.restart THEN "Exited"
    ELSE "Configuring"

\* mutant of DeferredReturn: the error of the removal is returned
DeferredReturnFails(r, rmErr) == [r EXCEPT !.err = @ \/ rmErr]

\* what run() returns once its deferred function has run: the err the
\* deferred function assigns is a variable of its own, so the results
\* (restart, err) are the ones of the return statement; rmErr is whether
\* removeOutputFile failed
DeferredReturn(r, rmErr) == r

\* mutant of SelectTimer: the loop goes to rerun without the timer
SelectTimerAlways(fired) == TRUE

\* "case <-rerunTimeout": the case can be chosen once the timer has fired
SelectTimer(fired) == fired

\* mutant of SelectSignal: the signal channel is not received from
SelectSignalNever(ch) == FALSE

\* "case s := <-sigs": the case can be chosen when a signal is in the channel
SelectSignal(ch) == ch # <<>>

\* mutant of AfterTimer: the timer leads back to the top of start()
AfterTimerReload == "Configuring"

\* "case <-rerunTimeout: goto rerun"
AfterTimer == "Composing"

\* history kept for the properties: the removeOutputFile calls of the
\* current run(), the restarts start() has made, how the loop came to
\* compose (via), and of the current cycle the Init and Shutdown calls,
\* the "No labels" warning and the Create and Update calls
History(removeCalls, restarts, via, inits, shutdowns, warned, creates, updates) ==
    [removeCalls |-> removeCalls, restarts |-> restarts, via |-> via,
     inits |-> inits, shutdowns |-> shutdowns, warned |-> warned,
     creates |-> creates, updates |-> updates,
     \* whether the removal of the current run() failed, the adapters
     \* initialised and not shut down since the process started, the time
     \* at which the current run() was entered
     removeFailed |-> FALSE, held |-> 0, enterTime |-> 0,
     \* whether the Get call, the Create or Update call of the last Output
     \* failed
     getFailed |-> FALSE, writeFailed |-> FALSE,
     \* whether Init or the GetDevices call of NewIXDeviceLabeler failed in
     \* the last cycle
     libFailed |-> FALSE]

DevA == Device(<<"Iluvatar", "BI-V150S">>, TRUE, 2 * MemUnit, TRUE)
DevB == Device(<<"Iluvatar", "MR-V100">>, TRUE, MemUnit, TRUE)
DevNoPrefix == Device(<<"BI-V150S">>, TRUE, 2 * MemUnit, TRUE)
DevNoMemory == Device(<<"Iluvatar", "BI-V150S">>, TRUE, 0, FALSE)

\* what the machines the process runs on report
DriverOk == LibString(<<"4", ".", "3", ".", "0">>, TRUE)
DriverMalformed == LibString(<<"4">>, TRUE)
CudaOk == LibString(<<"1", "0", "0", "2", "0">>, TRUE)
FileOk == FileRead(<<"M", "y", " ", " ", "P", "C", "!", "\n">>, FALSE)
FileUnreadable == FileRead(<<>>, TRUE)

Environments ==
    {Readings(d, DriverOk, CudaOk, FileOk) :
        d \in {<<>>, <<DevA, DevA>>, <<DevA, DevB>>, <<DevNoPrefix>>, <<DevA, DevNoMemory>>}}
    \cup {Readings(<<DevA>>, DriverMalformed, CudaOk, FileOk),
          Readings(<<DevA>>, DriverOk, CudaOk, FileUnreadable),
          Readings(<<>>, DriverMalformed, LibString(<<>>, FALSE), FileUnreadable)}

\* the command lines the process is started with
Contexts ==
    {Context(FALSE, DefaultOutputFile, DefaultMachineTypeFile, NodeName, "node-feature-discovery"),
     Context(TRUE, DefaultOutputFile, DefaultMachineTypeFile, NodeName, "node-feature-discovery"),
     Context(FALSE, "", DefaultMachineTypeFile, NodeName, "node-feature-discovery"),
     Context(FALSE, DefaultOutputFile, "", NodeName, "node-feature-discovery"),
     Context(FALSE, DefaultOutputFile, DefaultMachineTypeFile, "", "node-feature-discovery"),
     Context(FALSE, DefaultOutputFile, DefaultMachineTypeFile, NodeName, "")}

ProcIdle ==
    /\ pc = "off" /\ ctx = Context(FALSE, "", "", "", "")
    /\ env = Readings(<<>>, LibString(<<>>, FALSE), LibString(<<>>, FALSE), FileRead(<<>>, TRUE))
    /\ config = NoConfig /\ loads = 0 /\ sigs = <<>> /\ timerFired = FALSE
    /\ now = 0 /\ tsLabeler = EmptyLabeler /\ labels = NoLabels /\ store = Absent
    /\ ret = NoReturn /\ exitCode = -1 /\ cyc = 0
    /\ hist = History(0, 0, "none", 0, 0, FALSE, 0, 0)

\* the process once start() has registered the signals (line 109)
InitProc ==
    /\ pc = "Configuring"
    /\ ctx \in Contexts
    /\ env \in Environments
    /\ config = NoConfig
    /\ loads = 0
    /\ sigs = <<>>
    /\ timerFired = FALSE
    /\ now = StartTime
    /\ tsLabeler = EmptyLabeler
    /\ labels = NoLabels
    /\ store = Absent
    /\ ret = NoReturn
    /\ exitCode = -1
    /\ cyc = 0
    /\ hist = History(0, 0, "none", 0, 0, FALSE, 0, 0)

\* run() returns (restart, err): the deferred function runs first; h is the
\* history up to the return statement
RunReturns(restart, err, by, sig, h) ==
    \E rmErr \in IF RemoveCalls(config.outputFile) = 0 THEN {FALSE} ELSE BOOLEAN :
       /\ ret' = DeferredReturn(Return(restart, err, by, sig), rmErr)
       /\ hist' = [h EXCEPT !.removeCalls = @ + RemoveCalls(config.outputFile),
                             !.removeFailed = rmErr]
       /\ pc' = "Returned"

\* lines 112-146 of start(): loadConfig, NewIXMLManager, NewClientSets,
\* NewOutputer
Configure ==
    /\ pc = "Configuring"
    /\ loads' = loads + 1
    /\ config' = NewConfig(ctx, loads + 1)
    /\ \E clientErr \in BOOLEAN :
          IF clientErr \/ NewOutputerErr(ctx.nodeName, ctx.namespace)
          THEN pc' = "Exited" /\ exitCode' = 1
          ELSE pc' = "RunEnter" /\ exitCode' = exitCode
    /\ UNCHANGED <<ctx, env, sigs, timerFired, now, tsLabeler, labels, store, ret, cyc, hist>>

\* line 147 of start() and lines 164-175 of run()
RunEnter ==
    /\ pc = "RunEnter"
    /\ tsLabeler' = NewTimestampLabeler(config.noTimestamp, now)
    /\ hist' = [hist EXCEPT !.removeCalls = 0, !.removeFailed = FALSE,
                            !.via = "enter", !.enterTime = now]
    /\ pc' = "Composing"
    /\ cyc' = 0
    /\ UNCHANGED <<ctx, env, config, loads, sigs, timerFired, now, labels, store, ret,
                   exitCode>>

\* lines 176-194 of run(): NewLabelers, Merge, Labels
Compose ==
    /\ pc = "Composing"
    /\ cyc' = cyc + 1
    /\ \E initErr \in BOOLEAN, getDevErr \in BOOLEAN, getDevErr2 \in BOOLEAN,
          order \in MapOrders :
          LET loopLabelers == NewLabelers(env, config.machineTypeFile,
                                          Faults(initErr, getDevErr, getDevErr2, order))
              r == LabelerLabels(Merge(<<tsLabeler, loopLabelers.labeler>>))
              h == [hist EXCEPT !.inits = loopLabelers.inits,
                                !.shutdowns = loopLabelers.shutdowns,
                                !.held = @ + (IF initErr THEN 0 ELSE loopLabelers.inits)
                                           - loopLabelers.shutdowns,
                                !.warned = FALSE, !.creates = 0, !.updates = 0,
                                !.getFailed = FALSE, !.writeFailed = FALSE,
                                !.libFailed = initErr \/ getDevErr]
          IN  IF loopLabelers.kind = "panic"
              THEN \* the panic unwinds run(), whose deferred function runs
                   /\ pc' = "Exited" /\ exitCode' = 2
                   /\ \E rmErr \in IF RemoveCalls(config.outputFile) = 0
                                    THEN {FALSE} ELSE BOOLEAN :
                         hist' = [h EXCEPT
                                    !.removeCalls = @ + RemoveCalls(config.outputFile),
                                    !.removeFailed = rmErr]
                   /\ UNCHANGED <<labels, ret>>
              ELSE IF loopLabelers.kind = "err"
              THEN /\ RunReturns(FALSE, TRUE, "labelers", "none", h)
                   /\ UNCHANGED <<labels, exitCode>>
              ELSE IF r.err
              THEN /\ RunReturns(FALSE, TRUE, "labels", "none", h)
                   /\ UNCHANGED <<labels, exitCode>>
              ELSE /\ labels' = r.labels
                   /\ hist' = [h EXCEPT !.warned = Cardinality(DOMAIN r.labels) <= 1]
                   /\ pc' = "Publishing"
                   /\ UNCHANGED <<ret, exitCode>>
    /\ UNCHANGED <<ctx, env, config, loads, sigs, timerFired, now, tsLabeler, store>>

\* lines 196-202 of run(): Output, then the timer is started
Publish ==
    /\ pc = "Publishing"
    /\ \E getErr \in BOOLEAN, writeErr \in BOOLEAN :
          LET res == Output(store, ctx.nodeName, labels, getErr, writeErr)
              h == [hist EXCEPT !.creates = res.creates, !.updates = res.updates,
                                !.getFailed = getErr /\ res.gets = 1,
                                !.writeFailed = writeErr /\ res.creates + res.updates = 1]
          IN  /\ store' = res.store
              /\ IF res.err
                 THEN /\ RunReturns(FALSE, TRUE, "output", "none", h)
                      /\ UNCHANGED timerFired
                 ELSE /\ pc' = "Idle"
                      /\ timerFired' = FALSE
                      /\ hist' = h
                      /\ UNCHANGED ret
    /\ UNCHANGED <<ctx, env, config, loads, sigs, now, tsLabeler, labels, exitCode, cyc>>

\* lines 206-207 of run(): the timer has fired
IdleTimer ==
    /\ pc = "Idle"
    /\ SelectTimer(timerFired)
    /\ pc' = AfterTimer
    /\ timerFired' = FALSE
    /\ hist' = [hist EXCEPT !.via = "timer"]
    /\ UNCHANGED <<ctx, env, config, loads, sigs, now, tsLabeler, labels, store, ret,
                   exitCode, cyc>>

\* lines 211-219 of run(): a signal is received
IdleSignal ==
    /\ pc = "Idle"
    /\ SelectSignal(sigs)
    /\ sigs' = Tail(sigs)
    /\ RunReturns(SignalRestart(Head(sigs)), FALSE, "signal", Head(sigs), hist)
    /\ UNCHANGED <<ctx, env, config, loads, timerFired, now, tsLabeler, labels, store,
                   exitCode, cyc>>

\* lines 148-154 of start()
StartAfterRun ==
    /\ pc = "Returned"
    /\ pc' = AfterRun(ret)
    /\ exitCode' = IF AfterRun(ret) = "Exited" THEN (IF ret.err THEN 1 ELSE 0) ELSE exitCode
    /\ hist' = [hist EXCEPT !.restarts = IF AfterRun(ret) = "Exited" THEN @ ELSE @ + 1]
    /\ UNCHANGED <<ctx, env, config, loads, sigs, timerFired, now, tsLabeler, labels,
                   store, ret, cyc>>

\* the operating system delivers signal s: signal.Notify sends without
\* blocking, so a signal that finds the channel full is dropped
SignalArrive ==
    /\ pc # "Exited"
    /\ \E s \in Signals :
          /\ Len(sigs) < SigCap
          /\ s = "SIGHUP" =>
                loads + Cardinality({i \in DOMAIN sigs : sigs[i] = "SIGHUP"}) < MaxLoads
          /\ sigs' = Append(sigs, s)
    /\ UNCHANGED <<pc, ctx, env, config, loads, timerFired, now, tsLabeler, labels, store,
                   ret, exitCode, cyc, hist>>

\* the sleep interval elapses: the clock has advanced and the timer fires
TimerFire ==
    /\ pc = "Idle"
    /\ ~timerFired
    /\ cyc < MaxCycles
    /\ timerFired' = TRUE
    /\ now' = now + 1
    /\ UNCHANGED <<pc, ctx, env, config, loads, sigs, tsLabeler, labels, store, ret,
                   exitCode, cyc, hist>>

----------------------------------------------------------------------------
(* Specifications *)

Init == InitProc /\ MergeIdle /\ ResIdle /\ OutIdle /\ SrcIdle

Next ==
    \/ Configure /\ UNCHANGED <<mergeVars, resVars, outVars, srcVars>>
    \/ RunEnter /\ UNCHANGED <<mergeVars, resVars, outVars, srcVars>>
    \/ Compose /\ UNCHANGED <<mergeVars, resVars, outVars, srcVars>>
    \/ Publish /\ UNCHANGED <<mergeVars, resVars, outVars, srcVars>>
    \/ IdleTimer /\ UNCHANGED <<mergeVars, resVars, outVars, srcVars>>
    \/ IdleSignal /\ UNCHANGED <<mergeVars, resVars, outVars, srcVars>>
    \/ StartAfterRun /\ UNCHANGED <<mergeVars, resVars, outVars, srcVars>>
    \/ SignalArrive /\ UNCHANGED <<mergeVars, resVars, outVars, srcVars>>
    \/ TimerFire /\ UNCHANGED <<mergeVars, resVars, outVars, srcVars>>

Spec == Init /\ [][Next]_vars

\* The process keeps running: a statement of start() or run() that can be
\* executed is executed, and the select of run() does not pass over the
\* signal case forever when a signal is in the channel time and again.
\* Compose can be executed exactly when pc = "Composing" and each of its
\* steps leaves Composing, so its weak fairness is []<>(pc # "Composing").
\* Nothing is assumed of the signals sent or of the timer.
Fairness ==
    /\ WF_vars((Configure \/ RunEnter \/ Publish \/ StartAfterRun)
                  /\ UNCHANGED <<mergeVars, resVars, outVars, srcVars>>)
    /\ []<>(pc # "Composing")
    /\ SF_vars(IdleSignal /\ UNCHANGED <<mergeVars, resVars, outVars, srcVars>>)

\* the machines the running process is followed on: without devices, with
\* two devices of one product name, with a device whose name read panics
LiveEnvironments ==
    {e \in Environments : e.devices \in {<<>>, <<DevA, DevA>>, <<DevNoPrefix>>}}

InitLive == Init /\ env \in LiveEnvironments

SpecLive == InitLive /\ [][Next]_vars /\ Fairness

InitM == InitMerge /\ ResIdle /\ OutIdle /\ ProcIdle /\ SrcIdle

NextMerge == MergeCall /\ UNCHANGED <<resVars, outVars, procVars, srcVars>>

SpecMerge == InitM /\ [][NextMerge]_vars

InitR == InitRes /\ MergeIdle /\ OutIdle /\ ProcIdle /\ SrcIdle

NextRes == ResourceCall /\ UNCHANGED <<mergeVars, outVars, procVars, srcVars>>

SpecRes == InitR /\ [][NextRes]_vars

InitO == InitOut /\ MergeIdle /\ ResIdle /\ ProcIdle /\ SrcIdle

NextOut ==
    \/ OutputCall /\ UNCHANGED <<mergeVars, resVars, procVars, srcVars>>
    \/ OtherWrite /\ UNCHANGED <<mergeVars, resVars, procVars, srcVars>>

SpecOut == InitO /\ [][NextOut]_vars

InitS == InitSrc /\ MergeIdle /\ ResIdle /\ OutIdle /\ ProcIdle

NextSrc ==
    \/ VersionCall /\ UNCHANGED <<mergeVars, resVars, outVars, procVars>>
    \/ MachineTypeCall /\ UNCHANGED <<mergeVars, resVars, outVars, procVars>>
    \/ SanitiseCall /\ UNCHANGED <<mergeVars, resVars, outVars, procVars>>
    \/ CudaCall /\ UNCHANGED <<mergeVars, resVars, outVars, procVars>>

SpecSrc == InitS /\ [][NextSrc]_vars
----------------------------------------------------------------------------
(* Properties of labelerList.Labels, checked under SpecMerge *)

\* what the labeler at position i of the list produces
SourceLabels(i) == LabelerLabels(mList[i]).labels
SourceFails(i) == LabelerLabels(mList[i]).err

\* the positions of the list that produce key k
Producers(k) == {i \in DOMAIN mList : k \in DOMAIN SourceLabels(i)}

Last(S) == CHOOSE i \in S : \A j \in S : j <= i

\* C4: when several sources of a merged list produce the same key, the
\* composed LabelSet maps the key to the value of the source latest in the
\* list, whatever the values are.
C4_LaterSourceWins ==
    (mPc = "done" /\ ~mRes.err) =>
        \A k \in MKeys :
            Producers(k) # {} =>
                /\ k \in DOMAIN mRes.labels
                /\ mRes.labels[k] = SourceLabels(Last(Producers(k)))[k]

\* two sources collide on a key with different values and the later one won
C4_Witness ==
    /\ mPc = "done" /\ ~mRes.err
    /\ \E k \in MKeys : \E i, j \in Producers(k) :
          /\ i < j /\ j = Last(Producers(k))
          /\ SourceLabels(i)[k] # SourceLabels(j)[k]
          /\ mRes.labels[k] = SourceLabels(j)[k]

\* the sources of the list all succeed and no two produce the same key
DisjointSources ==
    /\ \A i \in DOMAIN mList : ~SourceFails(i)
    /\ \A i, j \in DOMAIN mList :
          i # j => (DOMAIN SourceLabels(i)) \cap (DOMAIN SourceLabels(j)) = {}

\* C5: for sources that all succeed and whose key sets are pairwise
\* disjoint, the composed LabelSet is exactly the union of their entries;
\* sources with an empty or nil set contribute nothing.
C5_DisjointUnion ==
    (mPc = "done" /\ DisjointSources) =>
        /\ ~mRes.err /\ ~mRes.isNil
        /\ DOMAIN mRes.labels = UNION {DOMAIN SourceLabels(i) : i \in DOMAIN mList}
        /\ \A i \in DOMAIN mList : \A k \in DOMAIN SourceLabels(i) :
              mRes.labels[k] = SourceLabels(i)[k]

\* three disjoint sources, one of them empty, were merged into two entries
C5_Witness ==
    /\ mPc = "done" /\ DisjointSources
    /\ Len(mList) = 3
    /\ \E i \in DOMAIN mList : mList[i] = EmptyLabeler
    /\ DOMAIN mRes.labels = MKeys

\* the first position of the list whose labeler fails
FirstFailing == CHOOSE i \in DOMAIN mList : SourceFails(i) /\ \A j \in 1..(i - 1) : ~SourceFails(j)

\* C6: if a source of the list fails, the composition returns a failure and
\* nil (not the labels accumulated), no source after the failing one is
\* invoked, and the sources are invoked in list order.
C6_FailureNoPartial ==
    mPc = "done" =>
        IF \E i \in DOMAIN mList : SourceFails(i)
        THEN /\ mRes.err /\ mRes.isNil /\ mRes.labels = NoLabels
             /\ mRes.invoked = [i \in 1..FirstFailing |-> i]
        ELSE /\ ~mRes.err
             /\ mRes.invoked = [i \in 1..Len(mList) |-> i]

\* a source failed after another had produced labels, and one more followed
C6_Witness ==
    /\ mPc = "done" /\ mRes.err
    /\ Len(mList) = 3 /\ FirstFailing = 2
    /\ SourceLabels(1) # NoLabels
    /\ mRes.invoked = <<1, 2>>

----------------------------------------------------------------------------
(* Properties of newIXResourceLabeler, checked under SpecRes *)

\* every device of the list reports its product name and its memory
AllReadsOk ==
    \A i \in DOMAIN rDevs :
        rDevs[i].nameOk /\ Len(rDevs[i].name) >= 2 /\ rDevs[i].memOk

\* the product names the devices report, the devices of one name
NamesReported == {rDevs[i].name[2] : i \in DOMAIN rDevs}
DevicesNamed(n) == {i \in DOMAIN rDevs : rDevs[i].name[2] = n}

\* the label set of the labeler returned
ResourceLabels == LabelerLabels(rRes.labeler)

\* the product/count/memory triple of product name n is in label set l
HasTriple(l, n) ==
    /\ {KeyProduct, KeyCount, KeyMemory} \subseteq DOMAIN l
    /\ l[KeyProduct] = n
    /\ l[KeyCount] = Itoa(Cardinality(DevicesNamed(n)))
    /\ \E i \in DevicesNamed(n) : l[KeyMemory] = Itoa(rDevs[i].mem)

\* C7 (as claimed): with devices of two or more distinct product names, the
\* label set of the resource source carries the product/count/memory triple
\* of every distinct name, the counts of the groups emitted sum to the
\* number of devices, and a warning is logged without failing.
C7_TripleForEveryName ==
    (rPc = "done" /\ ~rGetDevErr /\ AllReadsOk /\ Cardinality(NamesReported) >= 2) =>
        /\ rRes.kind = "ok" /\ rRes.warned /\ ~ResourceLabels.err
        /\ \A n \in NamesReported : HasTriple(ResourceLabels.labels, n)

\* C7 (the part the code keeps): the warning is logged and the source does
\* not fail, and the one triple emitted is that of one of the names
C7_WarnsWithoutFailing ==
    (rPc = "done" /\ ~rGetDevErr /\ AllReadsOk /\ Cardinality(NamesReported) >= 2) =>
        /\ rRes.kind = "ok" /\ rRes.warned /\ ~ResourceLabels.err
        /\ \E n \in NamesReported : HasTriple(ResourceLabels.labels, n)

\* C8: N >= 1 devices that all report the same product name and the same
\* memory M give exactly three labels: product = the name, count = N and
\* memory = M as decimal strings, and no error.
C8_OneGroup ==
    (rPc = "done" /\ ~rGetDevErr /\ Len(rDevs) >= 1 /\ AllReadsOk
     /\ \A i \in DOMAIN rDevs :
           rDevs[i].name[2] = rDevs[1].name[2] /\ rDevs[i].mem = rDevs[1].mem) =>
        /\ rRes.kind = "ok" /\ ~ResourceLabels.err /\ ~rRes.warned
        /\ ResourceLabels.labels =
              [k \in {KeyProduct, KeyCount, KeyMemory} |->
                  CASE k = KeyProduct -> rDevs[1].name[2]
                    [] k = KeyCount   -> Itoa(Len(rDevs))
                    [] k = KeyMemory  -> Itoa(rDevs[1].mem)]

\* three devices named MR-V100 with 32768 MB each gave count "3"
C8_Witness ==
    /\ rPc = "done" /\ ~rGetDevErr /\ Len(rDevs) = 3 /\ AllReadsOk
    /\ \A i \in DOMAIN rDevs : rDevs[i].name[2] = "MR-V100" /\ rDevs[i].mem = 2 * MemUnit
    /\ rRes.kind = "ok"
    /\ ResourceLabels.labels[KeyCount] = "3"
    /\ ResourceLabels.labels[KeyProduct] = "MR-V100"
    /\ ResourceLabels.labels[KeyMemory] = Itoa(2 * MemUnit)

\* C9: with an empty device list the resource source returns the empty
\* label source, whose Labels() yields no entries and no error, and no name
\* or memory of a device is read.
C9_NoDevices ==
    (rPc = "done" /\ ~rGetDevErr /\ rDevs = <<>>) =>
        /\ rRes.kind = "ok"
        /\ rRes.labeler = EmptyLabeler
        /\ ResourceLabels.labels = NoLabels /\ ~ResourceLabels.err
        /\ rRes.nameReads = 0 /\ rRes.memReads = 0

\* the source was called on a manager that lists no device
C9_Witness ==
    /\ rPc = "done" /\ ~rGetDevErr /\ rDevs = <<>>
    /\ rRes.kind = "ok" /\ rRes.labeler.kind = "empty"
----------------------------------------------------------------------------
(* Properties of NodeFeatureOutputer.Output, checked under SpecOut *)

\* C2: from a store in which the node's object is absent, two consecutive
\* Output calls with the same LabelSet and no other writer in between (the
\* first one succeeding) issue exactly one create on the first call and no
\* create and no update on the second call.
C2_SecondPublishWritesNothing ==
    (oLast.called /\ oPrev.called /\ ~oPrev.preExists /\ ~oPrev.err
     /\ oLast.labels = oPrev.labels /\ ~oLast.interfered) =>
        /\ oPrev.creates = 1 /\ oPrev.updates = 0
        /\ oLast.res.creates = 0 /\ oLast.res.updates = 0

\* the same labels were published twice, the second call found the object
C2_Witness ==
    /\ oLast.called /\ oPrev.called /\ ~oPrev.preExists /\ ~oPrev.err
    /\ oLast.labels = oPrev.labels /\ ~oLast.interfered
    /\ oLast.labels = OneLabel(KeyCount, "2")
    /\ oLast.pre.exists /\ oLast.res.gets = 1 /\ ~oLast.res.err
    /\ oPrev.creates = 1

\* the object the last Output call found in the store is the object the
\* call computes from the labels passed
StoredIsComputed ==
    /\ oLast.pre.obj.metaLabels = OneLabel(NodeFeatureObjNodeNameLabel, NodeName)
    /\ oLast.pre.obj.features = NewFeatures
    /\ oLast.pre.obj.specLabels = oLast.labels

\* C3: when the node's object exists and the LabelSet passed differs from
\* the labels of the stored object, Output issues exactly one update and no
\* create, and once it has succeeded the stored object's spec labels are
\* exactly the LabelSet passed; when the computed object equals the stored
\* one, no update is issued.
C3_UpdateOnlyWhenDifferent ==
    (oLast.called /\ ~oLast.getErr /\ oLast.pre.exists) =>
        /\ oLast.labels # oLast.pre.obj.specLabels =>
              /\ oLast.res.updates = 1 /\ oLast.res.creates = 0
              /\ ~oLast.res.err =>
                    /\ oLast.res.store.exists
                    /\ oLast.res.store.obj.specLabels = oLast.labels
        /\ StoredIsComputed =>
              oLast.res.updates = 0 /\ oLast.res.creates = 0 /\ ~oLast.res.err

\* the stored count "1" was replaced by "2" with one update
C3_Witness ==
    /\ oLast.called /\ ~oLast.getErr /\ oLast.pre.exists
    /\ oLast.pre.obj.specLabels = OneLabel(KeyCount, "1")
    /\ oLast.labels = OneLabel(KeyCount, "2")
    /\ oLast.res.updates = 1 /\ ~oLast.res.err
    /\ oStore.exists /\ oStore.obj.specLabels = OneLabel(KeyCount, "2")

----------------------------------------------------------------------------
(* Properties of the process, checked under Spec *)

\* the signal run() received decides what it returns: restart and no error
\* for SIGHUP, no restart and no error for SIGINT, SIGTERM and SIGQUIT
SignalDecision ==
    /\ ret.sig \in Signals
    /\ ~ret.err
    /\ ret.sig = "SIGHUP" => ret.restart
    /\ ret.sig \in {"SIGINT", "SIGTERM", "SIGQUIT"} => ~ret.restart

\* C1 (as claimed): when run() leaves the idle wait on a signal, it returns
\* restart = true and no error for SIGHUP, restart = false and no error for
\* every other registered signal, and in both cases the removal of the
\* output file has been attempted before start() goes on.
C1_RemovalAlwaysAttempted ==
    (pc = "Returned" /\ ret.by = "signal") =>
        SignalDecision /\ hist.removeCalls = 1

\* C1 (amended): the same decisions, and the removal of the output file has
\* been attempted (once) before start() goes on exactly when the configured
\* path is not empty; with an empty path nothing is removed.
C1_SignalReturn ==
    (pc = "Returned" /\ ret.by = "signal") =>
        /\ SignalDecision
        /\ config.outputFile # "" => hist.removeCalls = 1
        /\ config.outputFile = "" => hist.removeCalls = 0

\* run() has returned on SIGHUP with the output file removed
C1_Witness ==
    /\ pc = "Returned" /\ ret.by = "signal" /\ ret.sig = "SIGHUP"
    /\ ret.restart /\ ~ret.err
    /\ config.outputFile = DefaultOutputFile /\ hist.removeCalls = 1

\* the steps of the loop a configuration epoch is made of
C10_Step ==
    \* the idle wait is left for the composition with the same Config
    \* object, or by returning from run()
    /\ (pc = "Idle" /\ pc' # "Idle") =>
          \/ pc' = "Composing" /\ config' = config /\ loads' = loads
          \/ pc' = "Returned" /\ ret'.by = "signal"
    \* after a hang-up start() goes back to loadConfig and does not exit
    /\ (pc = "Returned" /\ ret.by = "signal" /\ ret.sig = "SIGHUP" /\ pc' # pc) =>
          pc' = "Configuring" /\ exitCode' = -1
    \* a composition follows run() being entered or the timer, and run()
    \* is entered from Configuring only
    /\ (pc' = "Composing" /\ pc # "Composing") => pc \in {"RunEnter", "Idle"}
    /\ (pc' = "RunEnter" /\ pc # "RunEnter") =>
          pc = "Configuring" /\ loads' = loads + 1 /\ config'.id = loads'
    \* the configuration is loaded in Configuring only
    /\ (loads' # loads \/ config' # config) => pc = "Configuring"
    \* one load per epoch: the Config in use is the one loaded last
    /\ pc \in {"RunEnter", "Composing", "Publishing", "Idle"} =>
          loads = hist.restarts + 1 /\ config.id = loads

\* C10: the configuration is loaded exactly once per epoch: when the timer
\* fires the loop goes back to Composing with the same Config object and
\* without passing through Configuring; after a hang-up run() returns
\* restart and start() goes through Configuring before any composition,
\* and the process does not exit.
C10_ReloadOncePerEpoch == [][C10_Step]_vars

\* the timer has led back to the composition in the second epoch
C10_Witness ==
    /\ pc = "Composing" /\ hist.via = "timer"
    /\ hist.restarts = 1 /\ loads = 2 /\ config.id = 2

\* the steps a failure leaves to the process
C11_Step ==
    \* the clients or the outputer cannot be built: start() returns the error
    /\ (pc = "Configuring" /\ pc' \notin {"Configuring", "RunEnter"}) =>
          pc' = "Exited" /\ exitCode' = 1
    \* the labelers cannot be built or their labels cannot be composed
    /\ (pc = "Composing" /\ pc' \notin {"Composing", "Publishing"}) =>
          \/ pc' = "Returned" /\ ret'.err /\ ~ret'.restart
          \/ pc' = "Exited" /\ exitCode' = 2
    \* the labels cannot be published
    /\ (pc = "Publishing" /\ pc' \notin {"Publishing", "Idle"}) =>
          pc' = "Returned" /\ ret'.err /\ ~ret'.restart
    \* once run() has returned an error nothing is initialised, composed or
    \* published again: the only step left to start() is to return it
    /\ (pc = "Returned" /\ ret.err) =>
          /\ pc' \in {"Returned", "Exited"}
          /\ pc' = "Exited" => exitCode' = 1
          /\ hist'.inits = hist.inits /\ hist'.creates = hist.creates
          /\ hist'.updates = hist.updates /\ store' = store /\ labels' = labels
    /\ pc = "Exited" => pc' = "Exited"
    \* status 0 is the status of a run() ended by SIGINT, SIGTERM or SIGQUIT
    /\ (pc' = "Exited" /\ pc # "Exited" /\ exitCode' = 0) =>
          /\ pc = "Returned" /\ ~ret.err /\ ret.by = "signal"
          /\ ret.sig \in {"SIGINT", "SIGTERM", "SIGQUIT"}
    /\ (pc' = "Exited" /\ pc = "Returned" /\ ~ret.err) => exitCode' = 0

\* C11: a failed cycle is never retried: after a failure to build the
\* clients or the outputer, to initialise the adapter, to compose or to
\* publish, no further Init, composition or publication is made and the
\* process exits with a status that is not 0; it exits with status 0 only
\* when run() was ended by a signal other than SIGHUP.
C11_FailureExits == [][C11_Step]_vars

\* the process has exited with status 1 after a publication failed in the
\* second cycle of an epoch
C11_Witness ==
    /\ pc = "Exited" /\ exitCode = 1
    /\ ret.err /\ ret.by = "output" /\ cyc = 2

\* what run() returns is decided by the statement that returns: an error
\* and no restart for a failure, the decision of the signal otherwise
ExitDecision ==
    /\ ret.by \in {"signal", "labelers", "labels", "output"}
    /\ ret.by = "signal" => SignalDecision
    /\ ret.by # "signal" => ret.err /\ ~ret.restart

\* C12 (as claimed): on every exit path of run() the removal of the output
\* file is attempted exactly once, whatever the configuration, and a failed
\* removal changes neither the restart decision nor the error returned.
C12_RemovalUnconditional ==
    pc = "Returned" => hist.removeCalls = 1 /\ ExitDecision

\* C12 (amended): on every exit path of run() the removal of the output file
\* is attempted exactly once when the configured path is not empty and not
\* at all when it is empty; a failed removal changes neither the restart
\* decision nor the error returned.
C12_RemovalOnExit ==
    pc = "Returned" =>
        /\ hist.removeCalls = (IF config.outputFile = "" THEN 0 ELSE 1)
        /\ hist.removeFailed => hist.removeCalls = 1
        /\ ExitDecision

\* run() has returned on SIGTERM without error although the removal failed
C12_Witness ==
    /\ pc = "Returned" /\ ret.by = "signal" /\ ret.sig = "SIGTERM"
    /\ hist.removeCalls = 1 /\ hist.removeFailed
    /\ ~ret.err /\ ~ret.restart

\* C13: the device adapter is never held across the idle wait: every
\* successful Init of a cycle is followed by one Shutdown before the labels
\* are generated, Shutdown is not called when Init failed, and so while the
\* loop is Publishing or Idle as many Shutdown calls as Init calls have been
\* made, over any number of timer re-polls and reloads.
C13_AdapterReleased ==
    /\ hist.held = 0
    /\ hist.shutdowns <= hist.inits
    /\ pc \in {"Publishing", "Idle"} => hist.inits = 1 /\ hist.shutdowns = 1
    /\ (pc = "Returned" /\ ret.by = "labelers") =>
          hist.inits = 1 /\ hist.shutdowns \in {0, 1}

\* the loop is idle in the second cycle of the second epoch with the adapter
\* shut down
C13_Witness ==
    /\ pc = "Idle" /\ hist.restarts = 1 /\ cyc = 2
    /\ hist.inits = 1 /\ hist.shutdowns = 1 /\ hist.held = 0

\* the adapter could not be initialised and was not shut down
C13_WitnessInitFailed ==
    /\ pc = "Returned" /\ ret.by = "labelers"
    /\ hist.inits = 1 /\ hist.shutdowns = 0 /\ hist.held = 0

\* composition and publication are not interrupted by a signal: the steps
\* out of Composing and Publishing leave the channel alone and never return
\* because of a signal
NotInterrupted ==
    (pc \in {"Composing", "Publishing"} /\ pc' # pc) =>
        /\ sigs' = sigs
        /\ pc' = "Returned" => ret'.by # "signal"

\* the select of run() as the claim has it: a pending signal other than
\* SIGHUP is what the idle wait takes next
C14_StepAsClaimed ==
    /\ (pc = "Idle" /\ sigs # <<>> /\ Head(sigs) # "SIGHUP") =>
          pc' \in {"Idle", "Returned"}
    /\ NotInterrupted

\* C14 (as claimed): in every Idle state in which a signal other than SIGHUP
\* is pending the next step of the loop is the return of run(), so nothing
\* is composed or published between the signal being pending in Idle and
\* run() returning; composition and publication are not interrupted.
C14_SignalAbortsIdle == [][C14_StepAsClaimed]_vars

\* the select of run(): a pending signal is what the idle wait takes next
\* unless the timer has fired too, in which case either case may be chosen
C14_Step ==
    /\ (pc = "Idle" /\ sigs # <<>> /\ ~timerFired) => pc' \in {"Idle", "Returned"}
    /\ (pc = "Idle" /\ pc' = "Returned") =>
          /\ sigs # <<>> /\ ret'.by = "signal" /\ ret'.sig = Head(sigs)
          /\ sigs' = Tail(sigs)
          /\ store' = store /\ labels' = labels
    /\ (pc = "Idle" /\ pc' # "Idle") => pc' \in {"Returned", "Composing"}
    /\ (pc = "Idle" /\ pc' = "Composing") => timerFired /\ sigs' = sigs
    /\ NotInterrupted

\* C14 (amended): in every Idle state in which a signal is pending and the
\* timer has not fired, the next step of the loop is the return of run(),
\* with nothing composed or published in between; when the timer has fired
\* as well the select may take either case, so one more cycle may run
\* before the signal, which stays pending, is received; composition and
\* publication are not interrupted.
C14_SignalEndsIdle == [][C14_Step]_vars

\* run() has returned on SIGTERM from an idle wait whose timer had not
\* fired, in the first cycle
C14_Witness ==
    /\ pc = "Returned" /\ ret.by = "signal" /\ ret.sig = "SIGTERM"
    /\ ~timerFired /\ cyc = 1 /\ hist.via = "enter"

\* a cycle was started by the timer while SIGTERM was pending
C14_WitnessBoth ==
    /\ pc = "Composing" /\ hist.via = "timer" /\ sigs = <<"SIGTERM">>

(* Properties of the process, checked under SpecLive *)

\* a signal leaves the channel only by being received in the idle wait, and
\* run() then returns the decision of that signal
C15_Step ==
    sigs' # sigs =>
        \/ \E s \in Signals : sigs' = Append(sigs, s)
        \/ /\ pc = "Idle" /\ sigs # <<>> /\ sigs' = Tail(sigs)
           /\ pc' = "Returned" /\ ret'.by = "signal" /\ ret'.sig = Head(sigs)
           /\ ret'.restart = (Head(sigs) = "SIGHUP") /\ ~ret'.err

C16_FileModeWhenPathSet ==
    /\ (pc = "Idle" /\ config.outputFile # "") =>
          /\ NewOutputerKind(config.outputFile) = "FileOutputer"
          /\ store = Absent /\ hist.creates = 0 /\ hist.updates = 0
    /\ (pc = "Idle" /\ config.outputFile = "") =>
          /\ NewOutputerKind(config.outputFile) = "NodeFeatureOutputer"
          /\ store # Absent

\* what the code does: whatever the path, every publication goes to the
\* node's object in the cluster
C16_AlwaysClusterObject ==
    pc = "Idle" =>
        /\ NewOutputerKind(config.outputFile) = "NodeFeatureOutputer"
        /\ store # Absent /\ store.obj.specLabels = labels

(* Properties of ixmlDevice.GetName, checked under SpecRes *)

\* the product token of raw name n: the name itself when it is one token,
\* the token after the vendor prefix otherwise
ProductToken(n) == IF Len(n) = 1 THEN n[1] ELSE n[2]

\* C17 (as claimed): GetName returns the product name of a device whose raw
\* name is a single token without the vendor prefix, without failing or
\* crashing, and the product token of a prefixed name with the prefix
\* stripped; so the resource labeler reports that product.
C17_NameWithoutPrefix ==
    (rPc = "done" /\ ~rGetDevErr /\ Len(rDevs) = 1
     /\ rDevs[1].nameOk /\ rDevs[1].memOk) =>
        /\ GetName(rDevs[1]) = ReadResult(ProductToken(rDevs[1].name), FALSE, FALSE)
        /\ rRes.kind = "ok"
        /\ ResourceLabels.labels[KeyProduct] = ProductToken(rDevs[1].name)

\* the part the code keeps: the prefix of a prefixed name is stripped
C17_PrefixStripped ==
    (rPc = "done" /\ ~rGetDevErr /\ Len(rDevs) = 1
     /\ rDevs[1].nameOk /\ rDevs[1].memOk /\ Len(rDevs[1].name) = 2) =>
        /\ GetName(rDevs[1]) = ReadResult(rDevs[1].name[2], FALSE, FALSE)
        /\ rRes.kind = "ok"
        /\ ResourceLabels.labels[KeyProduct] = rDevs[1].name[2]

\* what the code does with a name of one token: the index is out of range
C17_SingleTokenPanics ==
    (rPc = "done" /\ ~rGetDevErr /\ Len(rDevs) = 1
     /\ rDevs[1].nameOk /\ Len(rDevs[1].name) = 1) =>
        GetName(rDevs[1]).panic /\ rRes.kind = "panic"

----------------------------------------------------------------------------
(* Properties of the version and machine-type labelers, checked under SpecSrc *)

\* the seven keys of a version labeler
VersionKeys ==
    {KeyDriverFull, KeyDriverMajor, KeyDriverMinor, KeyDriverRev,
     KeyRuntimeFull, KeyRuntimeMajor, KeyRuntimeMinor}

\* the labels a source returned
sLabels == LabelerLabels(sRes.labeler).labels

\* the number of "." of the text cs, plus one: the components of the version
Components(cs) == Len(SelectSeq(cs, LAMBDA c : c = ".")) + 1

\* C18: when both versions are read, a driver version of two components
\* gives major and minor and an empty revision, one of three components
\* gives the third as the revision, any other number of components is an
\* error without labels; every success yields exactly the seven keys.
C18_DriverVersionSplit ==
    (sPc = "done" /\ sIn.kind = "version") =>
        LET v == sIn.driver.val
            n == Components(v)
            parts == Split(v, ".")
            read == sIn.driver.ok /\ ~GetCudaRuntimeVersion(sIn.cuda).err
        IN  /\ (read /\ n \in {2, 3}) =>
                  /\ ~sRes.err
                  /\ sLabels[KeyDriverFull] = JoinChars(v)
                  /\ sLabels[KeyDriverMajor] = JoinChars(parts[1])
                  /\ sLabels[KeyDriverMinor] = JoinChars(parts[2])
                  /\ sLabels[KeyDriverRev] = (IF n = 3 THEN JoinChars(parts[3]) ELSE "")
            /\ (sIn.driver.ok /\ (n < 2 \/ n > 3)) =>
                  (sRes.err /\ sLabels = NoLabels)
            /\ ~sRes.err => DOMAIN sLabels = VersionKeys
            /\ Len(parts) = n

\* a version of two components was labelled, its revision empty
C18_Witness ==
    /\ sPc = "done" /\ sIn.kind = "version"
    /\ sIn.driver.val = <<"4", ".", "3">>
    /\ ~sRes.err
    /\ sLabels[KeyDriverMajor] = "4"
    /\ sLabels[KeyDriverMinor] = "3"
    /\ sLabels[KeyDriverRev] = ""
    /\ Cardinality(DOMAIN sLabels) = 7

\* a version of four components was refused
C18_WitnessFour ==
    /\ sPc = "done" /\ sIn.kind = "version"
    /\ sIn.driver.val = <<"1", ".", "2", ".", "3", ".", "4">>
    /\ sRes.err

----------------------------------------------------------------------------
(* Properties of the timestamp label, checked under Spec *)

\* C19 as stated: with timestamps enabled the labels of every cycle carry
\* the Unix time of the moment they are produced, with timestamps disabled
\* they carry no timestamp label.
C19_TimestampCurrent ==
    pc = "Publishing" =>
        IF config.noTimestamp THEN KeyTimestamp \notin DOMAIN labels
        ELSE KeyTimestamp \in DOMAIN labels /\ labels[KeyTimestamp] = Itoa(now)

\* C19, amended: with timestamps enabled the labels of every cycle carry the
\* Unix time at which the current call of run() began, with timestamps
\* disabled they carry no timestamp label; the timestamp labeler never
\* fails.
C19_TimestampOfEpoch ==
    /\ ~LabelerLabels(tsLabeler).err
    /\ pc = "Publishing" =>
          IF config.noTimestamp THEN KeyTimestamp \notin DOMAIN labels
          ELSE /\ KeyTimestamp \in DOMAIN labels
               /\ labels[KeyTimestamp] = Itoa(hist.enterTime)

\* the labels of a timer-driven cycle carry the time of the epoch's start,
\* which has passed
C19_Witness ==
    /\ pc = "Publishing" /\ hist.via = "timer"
    /\ ~config.noTimestamp
    /\ labels[KeyTimestamp] = Itoa(hist.enterTime)
    /\ now > hist.enterTime

\* a cycle composed with timestamps disabled has labels and no timestamp
C19_WitnessDisabled ==
    /\ pc = "Publishing" /\ config.noTimestamp
    /\ labels # NoLabels /\ KeyTimestamp \notin DOMAIN labels

\* C20: the machine-type labeler returns no error and exactly the one
\* machine label; when the read of a configured path fails the value is
\* "unknown" and a warning is logged; when the path is empty the value is
\* "unknown" and no file is read.
C20_MachineTypeNeverFails ==
    (sPc = "done" /\ sIn.kind = "machine") =>
        /\ ~sRes.err
        /\ DOMAIN sLabels = {KeyMachine}
        /\ (sIn.path # "" /\ sIn.file.err) =>
              (sLabels[KeyMachine] = "unknown" /\ sRes.warned /\ sRes.reads = 1)
        /\ sIn.path = "" =>
              (sLabels[KeyMachine] = "unknown" /\ sRes.reads = 0 /\ ~sRes.warned)

\* the read of the configured path failed and the label is "unknown"
C20_Witness ==
    /\ sPc = "done" /\ sIn.kind = "machine"
    /\ sIn.path = DefaultMachineTypeFile /\ sIn.file.err
    /\ ~sRes.err
    /\ sLabels = OneLabel(KeyMachine, "unknown")

\* the path is empty, a readable file exists, and it was not read
C20_WitnessEmptyPath ==
    /\ sPc = "done" /\ sIn.kind = "machine"
    /\ sIn.path = "" /\ ~sIn.file.err /\ sIn.file.data = <<"R", "7", "4", "0">>
    /\ sRes.reads = 0
    /\ sLabels[KeyMachine] = "unknown"

----------------------------------------------------------------------------
(* Properties of sanitise, checked under SpecSrc *)

\* the characters sanitise keeps, the space apart
LabelChars == KeptChars \ {" "}

\* the number of words of the text cs: the positions where a character that
\* is no space follows a space or starts the text
Words(cs) ==
    Cardinality({i \in DOMAIN cs : cs[i] # " " /\ (i = 1 \/ cs[i - 1] = " ")})

\* the number of hyphens of the text cs
Hyphens(cs) == Len(SelectSeq(cs, LAMBDA c : c = "-"))

C21_WitnessTab ==
    /\ sPc = "done" /\ sIn.kind = "sanitise"
    /\ sIn.input = <<"a", "\t", "B">>
    /\ JoinChars(sRes.out) = "aB"

----------------------------------------------------------------------------
(* Properties of GetCudaRuntimeVersion, checked under SpecSrc *)

\* C24: a runtime version that is the decimal text of the number v gives
\* major = v div 1000 and minor = (v mod 1000) div 10, so v = major * 1000 +
\* minor * 10 with minor below 100 gives back major and minor; a text that
\* is no number is a failure.
C24_RuntimeDecomposition ==
    (sPc = "done" /\ sIn.kind = "cuda") =>
        IF sIn.v >= 0
        THEN /\ ~sRes.err
             /\ sRes.major = sIn.v \div 1000
             /\ sRes.minor = (sIn.v % 1000) \div 10
             /\ \A major \in 0..MaxMajor, minor \in 0..99 :
                   sIn.v = major * 1000 + minor * 10 =>
                       (sRes.major = major /\ sRes.minor = minor)
        ELSE sRes.err

\* 12.5 is encoded as 12050 and decomposed into 12 and 5
C24_Witness ==
    /\ sPc = "done" /\ sIn.kind = "cuda"
    /\ sIn.cuda.val = <<"1", "2", "0", "5", "0">>
    /\ ~sRes.err /\ sRes.major = 12 /\ sRes.minor = 5

\* a text that is no number was refused
C24_WitnessUnparsed ==
    /\ sPc = "done" /\ sIn.kind = "cuda"
    /\ sIn.cuda.ok /\ sIn.cuda.val = <<"1", "0", ".", "2">>
    /\ sRes.err

----------------------------------------------------------------------------
(* Properties of the aggregation loop, checked under SpecRes *)

\* the devices of the list whose name has a product token
AllNamesSplit == \A i \in DOMAIN rDevs : rDevs[i].nameOk => Len(rDevs[i].name) >= 2

\* the last device of the list that reports the product name n
LastNamed(n) == CHOOSE i \in DevicesNamed(n) : \A j \in DevicesNamed(n) : j <= i

\* C22: when every read succeeds, counts has the product names reported,
\* each with the number of devices of the list reporting it, and memorys
\* has for each name the memory of the last device reporting it, whatever
\* the other devices of that name report; when a name read or a memory read
\* fails, the result is an error and no labels.
C22_CountAndLastMemory ==
    (rPc = "done" /\ ~rGetDevErr /\ Len(rDevs) >= 1 /\ AllNamesSplit) =>
        IF AllReadsOk
        THEN /\ rRes.kind = "ok"
             /\ DOMAIN rRes.counts = NamesReported
             /\ DOMAIN rRes.memorys = NamesReported
             /\ \A n \in NamesReported :
                   /\ rRes.counts[n] = Cardinality(DevicesNamed(n))
                   /\ rRes.memorys[n] = Itoa(rDevs[LastNamed(n)].mem)
        ELSE /\ rRes.kind = "err"
             /\ ResourceLabels.labels = NoLabels
             /\ rRes.counts = NoLabels

\* three devices of one name, the first two with another memory than the
\* last: the count is 3 and the memory that of the last
C22_Witness ==
    /\ rPc = "done" /\ ~rGetDevErr /\ Len(rDevs) = 3 /\ AllReadsOk
    /\ \A i \in DOMAIN rDevs : rDevs[i].name[2] = "BI-V150S"
    /\ rDevs[1].mem = 2 * MemUnit /\ rDevs[2].mem = 2 * MemUnit /\ rDevs[3].mem = MemUnit
    /\ rRes.counts["BI-V150S"] = 3
    /\ rRes.memorys["BI-V150S"] = Itoa(MemUnit)

\* the memory read of the second of two devices failed: an error, no labels
C22_WitnessReadFails ==
    /\ rPc = "done" /\ ~rGetDevErr /\ Len(rDevs) = 2
    /\ rDevs[1].nameOk /\ rDevs[1].memOk /\ Len(rDevs[1].name) = 2
    /\ rDevs[2].nameOk /\ ~rDevs[2].memOk /\ Len(rDevs[2].name) = 2
    /\ rRes.kind = "err"
    /\ ResourceLabels.labels = NoLabels

----------------------------------------------------------------------------
(* Properties of a failing publication, checked under Spec *)

\* the step out of Publishing on which the Get call failed with an error
\* other than not-found
GetFailedStep == pc = "Publishing" /\ hist'.getFailed

\* the step out of Publishing on which the Create or the Update call failed
WriteFailedStep == pc = "Publishing" /\ hist'.writeFailed

\* a step on which a failing Get is followed by no Create and no Update and
\* leaves the store as it was, and on which a failing Get, Create or Update
\* makes run() return (false, error) from the Output statement, Idle not
\* entered
C23_Step ==
    /\ GetFailedStep =>
          (hist'.creates = 0 /\ hist'.updates = 0 /\ store' = store)
    /\ WriteFailedStep => hist'.creates + hist'.updates = 1
    /\ (GetFailedStep \/ WriteFailedStep) =>
          /\ pc' = "Returned"
          /\ ret'.err /\ ~ret'.restart /\ ret'.by = "output"

\* C23: a lookup of the node's object that fails with an error other than
\* not-found makes Output fail without a create or an update call, the
\* store unchanged; a failing create or update makes Output fail; in each
\* case run() returns (no restart, error) and Idle is not entered.
C23_PublicationFailure == [][C23_Step]_vars

\* run() has returned the error of a failed Get: no create, no update
C23_Witness ==
    /\ pc = "Returned" /\ ret.by = "output" /\ ret.err /\ ~ret.restart
    /\ hist.getFailed /\ hist.creates = 0 /\ hist.updates = 0

\* run() has returned the error of a failed Update in a timer-driven cycle
C23_WitnessUpdate ==
    /\ pc = "Returned" /\ ret.by = "output" /\ ret.err
    /\ hist.writeFailed /\ hist.updates = 1 /\ hist.via = "timer"

\* run() has returned the error of a failed Create
C23_WitnessCreate ==
    /\ pc = "Returned" /\ ret.by = "output" /\ ret.err
    /\ hist.writeFailed /\ hist.creates = 1

----------------------------------------------------------------------------
(* Properties of repeated cycles of one epoch, checked under Spec *)

\* a timer-driven cycle composes its labels: the labels of the cycle before
\* it, of the same call of run(), are still in labels
RepollComposes == pc = "Composing" /\ hist.via = "timer" /\ pc' = "Publishing"

\* a timer-driven cycle publishes its labels without a failure
RepollPublishes == pc = "Publishing" /\ hist.via = "timer" /\ pc' = "Idle"

\* the product names of the devices of the machine
EnvNames == {GetName(env.devices[i]).val : i \in DOMAIN env.devices}

\* a step on which a timer-driven cycle composes the labels of the cycle
\* before it and publishes them with no create and no update call
C25_Step ==
    /\ RepollComposes => labels' = labels
    /\ RepollPublishes => (hist'.creates = 0 /\ hist'.updates = 0)

\* C25 (as claimed): with unchanged readings and no other writer, every
\* cycle of an epoch composes the same labels and every timer-driven cycle
\* issues no create and no update call, for any device population.
C25_SameLabelsEveryCycle == [][C25_Step]_vars

\* C25 (the part the code keeps): the same, for machines whose devices all
\* report one product name
C25_SameLabelsOneName == [][Cardinality(EnvNames) <= 1 => C25_Step]_vars

\* a timer-driven cycle of a machine with two devices of one name has
\* published the labels of the cycle before it without a write
C25_WitnessOneName ==
    /\ pc = "Idle" /\ hist.via = "timer"
    /\ env.devices = <<DevA, DevA>>
    /\ hist.creates = 0 /\ hist.updates = 0
    /\ store.exists /\ store.obj.specLabels = labels

----------------------------------------------------------------------------
(* Properties of the cycle with and without devices, checked under Spec *)

\* the labels of a cycle on a machine without devices: the timestamp of the
\* epoch when timestamps are enabled, nothing otherwise
LabelsWithoutDevices ==
    IF config.noTimestamp THEN NoLabels
    ELSE OneLabel(KeyTimestamp, Itoa(hist.enterTime))

\* the keys a cycle on a machine with devices publishes at least
KeysWithDevices ==
    {KeyMachine} \cup VersionKeys \cup {KeyProduct, KeyCount, KeyMemory}

\* a step on which: a cycle on a machine without devices whose Init and
\* GetDevices calls succeed composes LabelsWithoutDevices and logs the
\* warning, whatever the driver version, the runtime version and the
\* machine-type file are; a cycle on a machine with devices that composes
\* has the machine label, the version labels and a product/count/memory
\* triple and logs no warning; a publication whose calls succeed stores the
\* labels composed
C26_Step ==
    /\ (pc = "Composing" /\ pc' # pc /\ Len(env.devices) = 0 /\ ~hist'.libFailed) =>
          /\ pc' = "Publishing"
          /\ labels' = LabelsWithoutDevices
          /\ hist'.warned
    /\ (pc = "Composing" /\ Len(env.devices) >= 1 /\ pc' = "Publishing") =>
          /\ KeysWithDevices \subseteq DOMAIN labels'
          /\ Cardinality(DOMAIN labels' \ {KeyTimestamp}) = 11
          /\ labels'[KeyProduct] \in EnvNames
          /\ ~hist'.warned
    /\ (pc = "Publishing" /\ pc' # pc /\ ~hist'.getFailed /\ ~hist'.writeFailed) =>
          /\ pc' = "Idle"
          /\ store'.exists /\ store'.obj.specLabels = labels

\* C26: on a node without devices the cycle succeeds and publishes only
\* the timestamp label (nothing when timestamps are disabled) with the
\* warning logged, the version and machine-type sources not deciding
\* anything; with a device or more the published labels have the machine
\* label, the seven version labels and a product/count/memory triple, and
\* no warning is logged.
C26_ZeroDevicesStillPublish == [][C26_Step]_vars

\* a machine without devices whose driver version is malformed and whose
\* runtime version and machine-type file cannot be read has published the
\* timestamp label alone, the warning logged
C26_Witness ==
    /\ pc = "Idle"
    /\ Len(env.devices) = 0 /\ env.driver = DriverMalformed /\ env.file.err
    /\ ~config.noTimestamp
    /\ hist.warned
    /\ store.exists /\ store.obj.specLabels = OneLabel(KeyTimestamp, Itoa(hist.enterTime))

\* a machine without devices has published no label at all, timestamps
\* being disabled
C26_WitnessEmpty ==
    /\ pc = "Idle" /\ Len(env.devices) = 0 /\ config.noTimestamp
    /\ hist.warned
    /\ store.exists /\ store.obj.specLabels = NoLabels

\* a machine with two devices has published twelve labels, no warning logged
C26_WitnessDevices ==
    /\ pc = "Idle" /\ env.devices = <<DevA, DevA>> /\ ~config.noTimestamp
    /\ ~hist.warned
    /\ DOMAIN store.obj.specLabels = KeysWithDevices \cup {KeyTimestamp}
====
